---- MODULE Spec2Model ----
(***************************************************************************)
(* Model of remco's resource supervisor, configuration.run: one worker     *)
(* goroutine per resource connects to the resource's backends (retrying    *)
(* every 2 seconds), builds the template resource and monitors it, while   *)
(* the main goroutine waits for the stop channel or for all workers.       *)
(***************************************************************************)
EXTENDS Integers, Sequences, FiniteSets, TLC

\* Bounds of the model.  The retry loop has no bound: a config is retried
\* as long as its Connect fails.
MaxResources == 2
MaxBackends == 2

Workers == 1..MaxResources
Configs == 1..MaxBackends

\* What config.Connect() can return: a client, the not-configured sentinel,
\* or any other error.
ConnectResults == {"ok", "ErrNilConfig", "err"}

VARIABLES
    Resource,     \* c.Resource: per resource, the number of backend configs
    mainPc,       \* position of run's own goroutine
    spawned,      \* how many resources the range loop has handled
    wait,         \* the sync.WaitGroup counter
    ctxDone,      \* ctx.Done() is closed
    cancelCalls,  \* number of calls of cancel()
    done,         \* the done channel is closed
    doneCloses,   \* number of close(done) calls
    stop,         \* the stop channel: "idle", "fired", "received"
    branch,       \* the select case run took: "none", "stop", "done"
    watcherPc,    \* position of the goroutine that waits and closes done
    pc,           \* position of each worker goroutine
    idx,          \* index of the backend config the worker is at
    backendList,  \* the worker's backendList (clients named by config index)
    deferred,     \* the worker's stack of deferred calls
    lastResult,   \* per worker and config: what the latest Connect call
                  \* returned ("none" before the first has returned)
    slept,        \* per worker and config: time.Sleep has been called
    closes,       \* per worker and client: number of Close calls
    newRes,       \* template.NewResource: "none", "running", "ok", "err"
    monitor,      \* t.Monitor: "none", "running", "returned"
    utilPc,       \* position inside a call of appendPrefix or decrypt
    prefix,       \* appendPrefix: the prefix argument (a string, by character)
    keys,         \* appendPrefix: the keys argument
    s,            \* appendPrefix: the slice s that is returned
    at,           \* appendPrefix: the index the range loop is at
    data,         \* decrypt: the data argument
    stages,       \* decrypt: the outcome of each library call made so far
    body,         \* decrypt: the bytes ioutil.ReadAll returned
    ret           \* decrypt: the returned (string, error)

runVars == <<Resource, mainPc, spawned, wait, ctxDone, cancelCalls, done,
             doneCloses, stop, branch, watcherPc, pc, idx, backendList,
             deferred, lastResult, slept, closes, newRes, monitor>>
utilVars == <<utilPc, prefix, keys, s, at, data, stages, body, ret>>
vars == <<runVars, utilVars>>

mainVars == <<mainPc, spawned, branch>>
workerVars == <<pc, idx, backendList, deferred, lastResult, slept, closes,
                newRes, monitor>>

NumResources == Len(Resource)
Spawned == 1..spawned

\* v.Backend.GetBackends() of resource w, as config indices.
GetBackends(w) == IF w <= NumResources THEN 1..Resource[w] ELSE {}

RECURSIVE SumTo(_, _)
SumTo(f, n) == IF n = 0 THEN 0 ELSE f[n] + SumTo(f, n - 1)

InList(w, i) == \E j \in 1..Len(backendList[w]) : backendList[w][j] = i

\* No call of appendPrefix or decrypt is under way.
UtilIdle ==
    /\ utilPc = "idle"
    /\ prefix = <<>>
    /\ keys = <<>>
    /\ s = <<>>
    /\ at = 0
    /\ data = ""
    /\ stages = <<>>
    /\ body = ""
    /\ ret = [val |-> "", err |-> "nil"]

\* run has just been entered, with the resources c.Resource.
RunInit ==
    /\ Resource \in UNION {[1..n -> 0..MaxBackends] : n \in 0..MaxResources}
    /\ mainPc = "spawn"
    /\ spawned = 0
    /\ wait = 0
    /\ ctxDone = FALSE
    /\ cancelCalls = 0
    /\ done = FALSE
    /\ doneCloses = 0
    /\ stop = "idle"
    /\ branch = "none"
    /\ watcherPc = "idle"
    /\ pc = [w \in Workers |-> "idle"]
    /\ idx = [w \in Workers |-> 1]
    /\ backendList = [w \in Workers |-> <<>>]
    /\ deferred = [w \in Workers |-> <<>>]
    /\ lastResult = [w \in Workers |-> [i \in Configs |-> "none"]]
    /\ slept = [w \in Workers |-> [i \in Configs |-> FALSE]]
    /\ closes = [w \in Workers |-> [i \in Configs |-> 0]]
    /\ newRes = [w \in Workers |-> "none"]
    /\ monitor = [w \in Workers |-> "none"]

Init == RunInit /\ UtilIdle

\* cancel(): closes ctx.Done(); only the first call has an effect on ctx.
Cancel ==
    /\ ctxDone' = TRUE
    /\ cancelCalls' = cancelCalls + 1

\* backendList.Close(): Close on every client of the list.
BackendsClose(w) ==
    [closes EXCEPT ![w] = [i \in Configs |->
        IF InList(w, i) THEN closes[w][i] + 1 ELSE closes[w][i]]]

----
\* The main goroutine.

\* Mutant of Spawn: the worker is called, not started with go, so the next
\* resource is handled only when the previous worker is over.
SpawnSequential ==
    /\ mainPc = "spawn"
    /\ spawned < NumResources
    /\ IF spawned = 0 THEN TRUE ELSE pc[spawned] = "done"
    /\ spawned' = spawned + 1
    /\ wait' = wait + 1
    /\ pc' = [pc EXCEPT ![spawned + 1] = "start"]
    /\ UNCHANGED <<Resource, mainPc, ctxDone, cancelCalls, done, doneCloses,
                   stop, branch, watcherPc, idx, backendList, deferred,
                   lastResult, slept, closes, newRes, monitor>>
    /\ UNCHANGED utilVars

\* for _, v := range c.Resource { wait.Add(1); go func(v resource) {...}(v) }
\* Mutant of Spawn: the worker is started without wait.Add(1).
SpawnNoAdd ==
    /\ mainPc = "spawn"
    /\ spawned < NumResources
    /\ spawned' = spawned + 1
    /\ pc' = [pc EXCEPT ![spawned + 1] = "start"]
    /\ UNCHANGED <<Resource, mainPc, wait, ctxDone, cancelCalls, done,
                   doneCloses, stop, branch, watcherPc, idx, backendList,
                   deferred, lastResult, slept, closes, newRes, monitor>>
    /\ UNCHANGED utilVars

Spawn ==
    /\ mainPc = "spawn"
    /\ spawned < NumResources
    /\ spawned' = spawned + 1
    /\ wait' = wait + 1
    /\ pc' = [pc EXCEPT ![spawned + 1] = "start"]
    /\ UNCHANGED <<Resource, mainPc, ctxDone, cancelCalls, done, doneCloses,
                   stop, branch, watcherPc, idx, backendList, deferred,
                   lastResult, slept, closes, newRes, monitor>>
    /\ UNCHANGED utilVars

\* The range loop is over: go func() { wait.Wait(); close(done) }()
SpawnWatcher ==
    /\ mainPc = "spawn"
    /\ spawned = NumResources
    /\ watcherPc' = "wait"
    /\ mainPc' = "select"
    /\ UNCHANGED <<Resource, spawned, wait, ctxDone, cancelCalls, done,
                   doneCloses, stop, branch>>
    /\ UNCHANGED workerVars
    /\ UNCHANGED utilVars

\* Mutant of StopBranch: the stop branch waits without calling cancel().
StopBranchNoCancel ==
    /\ mainPc = "select"
    /\ stop = "fired"
    /\ stop' = "received"
    /\ branch' = "stop"
    /\ mainPc' = "stopWait"
    /\ UNCHANGED <<Resource, spawned, wait, ctxDone, cancelCalls, done,
                   doneCloses, watcherPc>>
    /\ UNCHANGED workerVars
    /\ UNCHANGED utilVars

\* case <-stop: cancel(), then on to wait.Wait()
StopBranch ==
    /\ mainPc = "select"
    /\ stop = "fired"
    /\ stop' = "received"
    /\ branch' = "stop"
    /\ mainPc' = "stopWait"
    /\ Cancel
    /\ UNCHANGED <<Resource, spawned, wait, done, doneCloses, watcherPc>>
    /\ UNCHANGED workerVars
    /\ UNCHANGED utilVars

\* Mutant of StopWait: the stop branch returns without wait.Wait().
StopWaitNoJoin ==
    /\ mainPc = "stopWait"
    /\ mainPc' = "defer"
    /\ UNCHANGED <<Resource, spawned, wait, ctxDone, cancelCalls, done,
                   doneCloses, stop, branch, watcherPc>>
    /\ UNCHANGED workerVars
    /\ UNCHANGED utilVars

\* wait.Wait() of the stop branch returns; return
StopWait ==
    /\ mainPc = "stopWait"
    /\ wait = 0
    /\ mainPc' = "defer"
    /\ UNCHANGED <<Resource, spawned, wait, ctxDone, cancelCalls, done,
                   doneCloses, stop, branch, watcherPc>>
    /\ UNCHANGED workerVars
    /\ UNCHANGED utilVars

\* case <-done: return
\* Mutant of DoneBranch: the done branch gives way to a ready stop.
DoneBranchUnlessStop ==
    /\ mainPc = "select"
    /\ done
    /\ stop # "fired"
    /\ branch' = "done"
    /\ mainPc' = "defer"
    /\ UNCHANGED <<Resource, spawned, wait, ctxDone, cancelCalls, done,
                   doneCloses, stop, watcherPc>>
    /\ UNCHANGED workerVars
    /\ UNCHANGED utilVars

DoneBranch ==
    /\ mainPc = "select"
    /\ done
    /\ branch' = "done"
    /\ mainPc' = "defer"
    /\ UNCHANGED <<Resource, spawned, wait, ctxDone, cancelCalls, done,
                   doneCloses, stop, watcherPc>>
    /\ UNCHANGED workerVars
    /\ UNCHANGED utilVars

\* Mutant of DeferredCancel: run returns without the deferred cancel().
DeferredCancelOmitted ==
    /\ mainPc = "defer"
    /\ mainPc' = "returned"
    /\ UNCHANGED <<Resource, spawned, wait, ctxDone, cancelCalls, done,
                   doneCloses, stop, branch, watcherPc>>
    /\ UNCHANGED workerVars
    /\ UNCHANGED utilVars

\* defer cancel() runs as run returns
DeferredCancel ==
    /\ mainPc = "defer"
    /\ mainPc' = "returned"
    /\ Cancel
    /\ UNCHANGED <<Resource, spawned, wait, done, doneCloses, stop, branch,
                   watcherPc>>
    /\ UNCHANGED workerVars
    /\ UNCHANGED utilVars

\* The caller signals stop.
FireStop ==
    /\ stop = "idle"
    /\ stop' = "fired"
    /\ UNCHANGED <<Resource, wait, ctxDone, cancelCalls, done, doneCloses,
                   watcherPc>>
    /\ UNCHANGED mainVars
    /\ UNCHANGED workerVars
    /\ UNCHANGED utilVars

----
\* The goroutine that closes done.

WatcherWait ==
    /\ watcherPc = "wait"
    /\ wait = 0
    /\ watcherPc' = "close"
    /\ UNCHANGED <<Resource, wait, ctxDone, cancelCalls, done, doneCloses,
                   stop>>
    /\ UNCHANGED mainVars
    /\ UNCHANGED workerVars
    /\ UNCHANGED utilVars

\* Mutant of WatcherClose: the goroutine ends without close(done).
WatcherCloseNoSignal ==
    /\ watcherPc = "close"
    /\ watcherPc' = "exit"
    /\ UNCHANGED <<Resource, wait, ctxDone, cancelCalls, done, doneCloses, stop>>
    /\ UNCHANGED mainVars
    /\ UNCHANGED workerVars
    /\ UNCHANGED utilVars

\* close(done)
WatcherClose ==
    /\ watcherPc = "close"
    /\ done' = TRUE
    /\ doneCloses' = doneCloses + 1
    /\ watcherPc' = "exit"
    /\ UNCHANGED <<Resource, wait, ctxDone, cancelCalls, stop>>
    /\ UNCHANGED mainVars
    /\ UNCHANGED workerVars
    /\ UNCHANGED utilVars

----
\* A worker goroutine.

sharedVars == <<Resource, wait, ctxDone, cancelCalls, done, doneCloses, stop,
                watcherPc>>

\* var backendList template.Backends; defer wait.Done()
WorkerStart(w) ==
    /\ pc[w] = "start"
    /\ deferred' = [deferred EXCEPT ![w] = <<"wait.Done">>]
    /\ pc' = [pc EXCEPT ![w] = "loop"]
    /\ UNCHANGED <<idx, backendList, lastResult, slept, closes, newRes, monitor>>
    /\ UNCHANGED sharedVars
    /\ UNCHANGED mainVars
    /\ UNCHANGED utilVars

\* for _, config := range v.Backend.GetBackends(): the next config, and the
\* retry loop's select
LoopNext(w) ==
    /\ pc[w] = "loop"
    /\ idx[w] \in GetBackends(w)
    /\ pc' = [pc EXCEPT ![w] = "select"]
    /\ UNCHANGED <<idx, backendList, deferred, lastResult, slept, closes,
                   newRes, monitor>>
    /\ UNCHANGED sharedVars
    /\ UNCHANGED mainVars
    /\ UNCHANGED utilVars

\* Mutant of LoopEnd: the worker goes on to NewResource without waiting for
\* the range over the configurations to end.
LoopEndEarly(w) ==
    /\ pc[w] = "loop"
    /\ deferred' = [deferred EXCEPT ![w] = Append(@, "backendList.Close")]
    /\ newRes' = [newRes EXCEPT ![w] = "running"]
    /\ pc' = [pc EXCEPT ![w] = "build"]
    /\ UNCHANGED <<idx, backendList, lastResult, slept, closes, monitor>>
    /\ UNCHANGED sharedVars
    /\ UNCHANGED mainVars
    /\ UNCHANGED utilVars

\* The range loop is over: defer backendList.Close(); template.NewResource(...)
LoopEnd(w) ==
    /\ pc[w] = "loop"
    /\ idx[w] \notin GetBackends(w)
    /\ deferred' = [deferred EXCEPT ![w] = Append(@, "backendList.Close")]
    /\ newRes' = [newRes EXCEPT ![w] = "running"]
    /\ pc' = [pc EXCEPT ![w] = "build"]
    /\ UNCHANGED <<idx, backendList, lastResult, slept, closes, monitor>>
    /\ UNCHANGED sharedVars
    /\ UNCHANGED mainVars
    /\ UNCHANGED utilVars

\* Mutant of SelectCancelled: the cancellation path returns without closing.
SelectCancelledNoClose(w) ==
    /\ pc[w] = "select"
    /\ ctxDone
    /\ pc' = [pc EXCEPT ![w] = "return"]
    /\ UNCHANGED <<idx, backendList, deferred, lastResult, slept, closes,
                   newRes, monitor>>
    /\ UNCHANGED sharedVars
    /\ UNCHANGED mainVars
    /\ UNCHANGED utilVars

\* select { case <-ctx.Done(): backendList.Close(); return
SelectCancelled(w) ==
    /\ pc[w] = "select"
    /\ ctxDone
    /\ closes' = BackendsClose(w)
    /\ pc' = [pc EXCEPT ![w] = "return"]
    /\ UNCHANGED <<idx, backendList, deferred, lastResult, slept, newRes, monitor>>
    /\ UNCHANGED sharedVars
    /\ UNCHANGED mainVars
    /\ UNCHANGED utilVars

\* Mutant of SelectDefault: Connect is called without the select on
\* ctx.Done() before it.
SelectDefaultBlind(w) ==
    /\ pc[w] = "select"
    /\ pc' = [pc EXCEPT ![w] = "connect"]
    /\ UNCHANGED <<idx, backendList, deferred, lastResult, slept, closes,
                   newRes, monitor>>
    /\ UNCHANGED sharedVars
    /\ UNCHANGED mainVars
    /\ UNCHANGED utilVars

\* select { default: config.Connect() is called
SelectDefault(w) ==
    /\ pc[w] = "select"
    /\ ~ctxDone
    /\ pc' = [pc EXCEPT ![w] = "connect"]
    /\ UNCHANGED <<idx, backendList, deferred, lastResult, slept, closes,
                   newRes, monitor>>
    /\ UNCHANGED sharedVars
    /\ UNCHANGED mainVars
    /\ UNCHANGED utilVars

\* Mutant of Retried: the success test is missing, only the sentinel ends
\* the retry loop.
RetriedUnlessSentinel(res) == res # "ErrNilConfig"

\* Mutant of Retried: the sentinel test is missing, every error is retried.
RetriedAnyError(res) == res # "ok"

\* else if err != backendErrors.ErrNilConfig: the error is retried
Retried(res) == res # "ok" /\ res # "ErrNilConfig"

\* Mutant of ConnectReturn: a retry cap; after one failed retry the worker
\* gives up on the config and goes on to the next.
ConnectReturnCapped(w, res) ==
    /\ pc[w] = "connect"
    /\ lastResult' = [lastResult EXCEPT ![w][idx[w]] = res]
    /\ backendList' = [backendList EXCEPT ![w] =
                          IF res = "ok" THEN Append(@, idx[w]) ELSE @]
    /\ IF res # "ok" /\ res # "ErrNilConfig" /\ ~slept[w][idx[w]]
       THEN /\ slept' = [slept EXCEPT ![w][idx[w]] = TRUE]
            /\ pc' = [pc EXCEPT ![w] = "sleep"]
            /\ idx' = idx
       ELSE /\ slept' = slept
            /\ pc' = [pc EXCEPT ![w] = "loop"]
            /\ idx' = [idx EXCEPT ![w] = @ + 1]
    /\ UNCHANGED <<deferred, closes, newRes, monitor>>
    /\ UNCHANGED sharedVars
    /\ UNCHANGED mainVars
    /\ UNCHANGED utilVars

\* b, err := config.Connect() returns res
ConnectReturn(w, res) ==
    /\ pc[w] = "connect"
    /\ lastResult' = [lastResult EXCEPT ![w][idx[w]] = res]
    /\ backendList' = [backendList EXCEPT ![w] =
                          IF res = "ok" THEN Append(@, idx[w]) ELSE @]
    /\ IF Retried(res)
       THEN /\ slept' = [slept EXCEPT ![w][idx[w]] = TRUE]
            /\ pc' = [pc EXCEPT ![w] = "sleep"]
            /\ idx' = idx
       ELSE /\ slept' = slept
            /\ pc' = [pc EXCEPT ![w] = "loop"]
            /\ idx' = [idx EXCEPT ![w] = @ + 1]
    /\ UNCHANGED <<deferred, closes, newRes, monitor>>
    /\ UNCHANGED sharedVars
    /\ UNCHANGED mainVars
    /\ UNCHANGED utilVars

\* Mutant of SleepElapsed: the retry calls Connect again without going
\* through the select on ctx.Done().
SleepElapsedNoSelect(w) ==
    /\ pc[w] = "sleep"
    /\ pc' = [pc EXCEPT ![w] = "connect"]
    /\ UNCHANGED <<idx, backendList, deferred, lastResult, slept, closes,
                   newRes, monitor>>
    /\ UNCHANGED sharedVars
    /\ UNCHANGED mainVars
    /\ UNCHANGED utilVars

\* time.Sleep(2 * time.Second) elapses; continue retryloop
SleepElapsed(w) ==
    /\ pc[w] = "sleep"
    /\ pc' = [pc EXCEPT ![w] = "select"]
    /\ UNCHANGED <<idx, backendList, deferred, lastResult, slept, closes,
                   newRes, monitor>>
    /\ UNCHANGED sharedVars
    /\ UNCHANGED mainVars
    /\ UNCHANGED utilVars

\* template.NewResource returns nil error: t.Monitor(ctx) is called
BuildOk(w) ==
    /\ pc[w] = "build"
    /\ newRes' = [newRes EXCEPT ![w] = "ok"]
    /\ monitor' = [monitor EXCEPT ![w] = "running"]
    /\ pc' = [pc EXCEPT ![w] = "watch"]
    /\ UNCHANGED <<idx, backendList, deferred, lastResult, slept, closes>>
    /\ UNCHANGED sharedVars
    /\ UNCHANGED mainVars
    /\ UNCHANGED utilVars

\* Mutant of BuildFail: a failed build cancels the shared context.
BuildFailCancels(w) ==
    /\ pc[w] = "build"
    /\ newRes' = [newRes EXCEPT ![w] = "err"]
    /\ pc' = [pc EXCEPT ![w] = "return"]
    /\ ctxDone' = TRUE
    /\ UNCHANGED <<idx, backendList, deferred, lastResult, slept, closes, monitor>>
    /\ UNCHANGED <<Resource, wait, cancelCalls, done, doneCloses, stop, watcherPc>>
    /\ UNCHANGED mainVars
    /\ UNCHANGED utilVars

\* Mutant of BuildFail: the error of NewResource is logged and the worker
\* goes on to Monitor.
BuildFailThenMonitor(w) ==
    /\ pc[w] = "build"
    /\ newRes' = [newRes EXCEPT ![w] = "err"]
    /\ monitor' = [monitor EXCEPT ![w] = "running"]
    /\ pc' = [pc EXCEPT ![w] = "watch"]
    /\ UNCHANGED <<idx, backendList, deferred, lastResult, slept, closes>>
    /\ UNCHANGED sharedVars
    /\ UNCHANGED mainVars
    /\ UNCHANGED utilVars

\* template.NewResource returns an error: log.Error; return
BuildFail(w) ==
    /\ pc[w] = "build"
    /\ newRes' = [newRes EXCEPT ![w] = "err"]
    /\ pc' = [pc EXCEPT ![w] = "return"]
    /\ UNCHANGED <<idx, backendList, deferred, lastResult, slept, closes, monitor>>
    /\ UNCHANGED sharedVars
    /\ UNCHANGED mainVars
    /\ UNCHANGED utilVars

\* t.Monitor(ctx) returns because ctx was cancelled
MonitorCancelled(w) ==
    /\ pc[w] = "watch"
    /\ ctxDone
    /\ monitor' = [monitor EXCEPT ![w] = "returned"]
    /\ pc' = [pc EXCEPT ![w] = "return"]
    /\ UNCHANGED <<idx, backendList, deferred, lastResult, slept, closes, newRes>>
    /\ UNCHANGED sharedVars
    /\ UNCHANGED mainVars
    /\ UNCHANGED utilVars

\* t.Monitor(ctx) returns of its own accord (an unrecoverable error inside)
MonitorFailed(w) ==
    /\ pc[w] = "watch"
    /\ ~ctxDone
    /\ monitor' = [monitor EXCEPT ![w] = "returned"]
    /\ pc' = [pc EXCEPT ![w] = "return"]
    /\ UNCHANGED <<idx, backendList, deferred, lastResult, slept, closes, newRes>>
    /\ UNCHANGED sharedVars
    /\ UNCHANGED mainVars
    /\ UNCHANGED utilVars

\* Mutant of RunDeferred: the deferred calls run in the order they were
\* registered, wait.Done() first.
RunDeferredFifo(w) ==
    /\ pc[w] = "return"
    /\ deferred[w] # <<>>
    /\ LET call == Head(deferred[w]) IN
         /\ closes' = IF call = "backendList.Close" THEN BackendsClose(w) ELSE closes
         /\ wait' = IF call = "wait.Done" THEN wait - 1 ELSE wait
    /\ deferred' = [deferred EXCEPT ![w] = Tail(@)]
    /\ UNCHANGED <<idx, backendList, lastResult, slept, newRes, monitor, pc>>
    /\ UNCHANGED <<Resource, ctxDone, cancelCalls, done, doneCloses, stop,
                   watcherPc>>
    /\ UNCHANGED mainVars
    /\ UNCHANGED utilVars

\* The worker function returns: the deferred calls run, last registered first.
RunDeferred(w) ==
    /\ pc[w] = "return"
    /\ deferred[w] # <<>>
    /\ LET call == deferred[w][Len(deferred[w])] IN
         /\ closes' = IF call = "backendList.Close" THEN BackendsClose(w) ELSE closes
         /\ wait' = IF call = "wait.Done" THEN wait - 1 ELSE wait
    /\ deferred' = [deferred EXCEPT ![w] = SubSeq(@, 1, Len(@) - 1)]
    /\ UNCHANGED <<idx, backendList, lastResult, slept, newRes, monitor, pc>>
    /\ UNCHANGED <<Resource, ctxDone, cancelCalls, done, doneCloses, stop,
                   watcherPc>>
    /\ UNCHANGED mainVars
    /\ UNCHANGED utilVars

\* No deferred call is left: the goroutine ends.
WorkerExit(w) ==
    /\ pc[w] = "return"
    /\ deferred[w] = <<>>
    /\ pc' = [pc EXCEPT ![w] = "done"]
    /\ UNCHANGED <<idx, backendList, deferred, lastResult, slept, closes,
                   newRes, monitor>>
    /\ UNCHANGED sharedVars
    /\ UNCHANGED mainVars
    /\ UNCHANGED utilVars

\* The steps of worker w that the scheduler and the collaborators' contracts
\* make happen.
WorkerStep(w) ==
    \/ WorkerStart(w)
    \/ LoopNext(w)
    \/ LoopEnd(w)
    \/ SelectCancelled(w)
    \/ SelectDefault(w)
    \/ \E res \in ConnectResults : ConnectReturn(w, res)
    \/ SleepElapsed(w)
    \/ BuildOk(w)
    \/ BuildFail(w)
    \/ MonitorCancelled(w)
    \/ RunDeferred(w)
    \/ WorkerExit(w)

MainStep ==
    \/ Spawn
    \/ SpawnWatcher
    \/ StopBranch
    \/ StopWait
    \/ DoneBranch
    \/ DeferredCancel

WatcherStep ==
    \/ WatcherWait
    \/ WatcherClose

Next ==
    \/ MainStep
    \/ WatcherStep
    \/ FireStop
    \/ \E w \in Workers : WorkerStep(w)
    \/ \E w \in Workers : MonitorFailed(w)

Spec == Init /\ [][Next]_vars

\* Every goroutine that can run is eventually scheduled; the caller need not
\* ever signal stop and Monitor need not ever fail.
FairSpec ==
    /\ Spec
    /\ WF_vars(MainStep)
    /\ WF_vars(WatcherStep)
    /\ \A w \in Workers : WF_vars(WorkerStep(w))

----
\* Derived notions used by the properties.

\* The configs of worker w whose Connect returned a client.
Connected(w) ==
    {i \in Configs : lastResult[w][i] = "ok"}

\* Worker w has run all its deferred calls, wait.Done() last.
Exited(w) == pc[w] \in {"return", "done"} /\ deferred[w] = <<>>

AllExited == spawned = NumResources /\ \A w \in 1..NumResources : Exited(w)
StopFired == stop # "idle"
Returning == mainPc \in {"defer", "returned"}

TotalCloses ==
    SumTo([w \in Workers |-> SumTo(closes[w], MaxBackends)], MaxResources)
TotalConnected ==
    SumTo([w \in Workers |-> Cardinality(Connected(w))], MaxResources)

\* C1: every client a Connect call returned is in the worker's backendList
\* once, is never closed twice, is closed only if it was connected, and has
\* been closed exactly once when its worker has exited, on every exit path.
C1_CloseExactlyOnce ==
    \A w \in Workers : \A i \in Configs :
        /\ Cardinality({j \in 1..Len(backendList[w]) : backendList[w][j] = i})
              = (IF i \in Connected(w) THEN 1 ELSE 0)
        /\ closes[w][i] <= 1
        /\ closes[w][i] = 1 => i \in Connected(w)
        /\ Exited(w) => closes[w][i] = (IF i \in Connected(w) THEN 1 ELSE 0)

\* One worker left through the cancellation path of the connect phase with a
\* client, the other after NewResource failed with two clients; all closed.
C1_Witness ==
    /\ NumResources = 2
    /\ pc[1] = "done" /\ newRes[1] = "none" /\ Cardinality(Connected(1)) >= 1
    /\ pc[2] = "done" /\ newRes[2] = "err" /\ Cardinality(Connected(2)) = 2
    /\ TotalCloses = TotalConnected

\* C2: when run returns through the stop branch, the context is cancelled,
\* every worker has exited and as many Close calls were made as clients
\* were connected, for every number of resources.
C2_StopReturnsAfterRelease ==
    (branch = "stop" /\ Returning) =>
        /\ ctxDone
        /\ AllExited
        /\ TotalCloses = TotalConnected

C2_Witness ==
    /\ branch = "stop" /\ mainPc = "returned"
    /\ NumResources = 2
    /\ Cardinality(Connected(1)) >= 1 /\ Cardinality(Connected(2)) >= 1
    /\ monitor[1] = "returned" /\ newRes[2] = "none"

\* C3: once the stop signal has fired, run eventually returns and every
\* worker has terminated by then.
C3_ShutdownTerminates ==
    StopFired ~> (mainPc = "returned" /\ \A w \in 1..NumResources : pc[w] = "done")

C3_Witness ==
    /\ mainPc = "returned" /\ branch = "stop"
    /\ NumResources = 2
    /\ pc[1] = "done" /\ newRes[1] = "none" /\ slept[1][1]
    /\ pc[2] = "done" /\ monitor[2] = "returned"

\* C4: when run returns through the done branch every worker has exited and
\* every connected client is closed; and once every worker has exited, run
\* returns, whether or not the stop signal ever fires.
C4_ReturnsWhenAllWorkersExit ==
    /\ []((branch = "done" /\ Returning) =>
            (AllExited /\ TotalCloses = TotalConnected))
    /\ (AllExited ~> mainPc = "returned")

C4_Witness ==
    /\ mainPc = "returned" /\ branch = "done" /\ stop = "idle"
    /\ NumResources = 2
    /\ newRes[1] = "err" /\ newRes[2] = "err"
    /\ TotalConnected >= 2

\* All of worker w's own state.
WorkerState(w) ==
    <<pc[w], idx[w], backendList[w], deferred[w], lastResult[w], slept[w],
      closes[w], newRes[w], monitor[w]>>

ClosedOnce(w) ==
    \A i \in Configs : closes[w][i] = (IF i \in Connected(w) THEN 1 ELSE 0)

\* C5: the step in which NewResource fails for worker r sends r to its
\* return, cancels nothing and changes no other worker's state; r then
\* exits with its clients closed and without calling Monitor.
C5_BuildFailureIsLocal ==
    /\ [][\A r \in Workers :
            (pc[r] = "build" /\ newRes'[r] = "err") =>
                /\ pc'[r] = "return"
                /\ ctxDone' = ctxDone
                /\ cancelCalls' = cancelCalls
                /\ wait' = wait
                /\ \A o \in Workers \ {r} : WorkerState(o)' = WorkerState(o)]_vars
    /\ [](\A r \in Workers :
            newRes[r] = "err" =>
                /\ monitor[r] = "none"
                /\ pc[r] \in {"return", "done"}
                /\ Exited(r) => ClosedOnce(r))

\* Worker 1 is over after a failed build, its client closed, while worker 2,
\* which had to retry, is watching under a context that is not cancelled.
C5_Witness ==
    /\ NumResources = 2
    /\ newRes[1] = "err" /\ pc[1] = "done" /\ Connected(1) # {} /\ ClosedOnce(1)
    /\ pc[2] = "watch" /\ slept[2][1]
    /\ ~ctxDone

\* C6: a worker that is in the retry delay, or back at the select after it,
\* while the context is cancelled begins no Connect call, calls neither
\* NewResource nor Monitor, and leaves only through the return that has
\* closed each client of its backendList once; from that return it only
\* runs wait.Done().
C6_CancelDuringRetry ==
    [][\A w \in Workers :
        /\ (ctxDone /\ pc[w] \in {"sleep", "select"}) =>
              /\ lastResult'[w] = lastResult[w]
              /\ newRes'[w] = "none" /\ monitor'[w] = "none"
              /\ pc'[w] \in {"sleep", "select", "return"}
              /\ pc[w] = "sleep" => pc'[w] \in {"sleep", "select"}
              /\ backendList'[w] = backendList[w]
              /\ pc'[w] = "return" =>
                    /\ closes'[w] = [i \in Configs |->
                                        IF InList(w, i) THEN 1 ELSE 0]
                    /\ deferred'[w] = <<"wait.Done">>
        /\ (pc[w] = "return" /\ newRes[w] = "none") =>
              /\ lastResult'[w] = lastResult[w]
              /\ newRes'[w] = "none" /\ monitor'[w] = "none"
              /\ pc'[w] \in {"return", "done"}
              /\ closes'[w] = closes[w]]_vars

\* A worker whose last Connect failed has left through the cancellation
\* path with a client it had connected before, now closed.
C6_Witness ==
    \E w \in Workers :
        /\ pc[w] = "done" /\ newRes[w] = "none" /\ ctxDone
        /\ idx[w] = 2
        /\ lastResult[w][1] = "ok"
        /\ lastResult[w][2] = "err"
        /\ closes[w][1] = 1

\* C7: retrying until success.  A Connect call begins only from the select;
\* a call that fails is followed by one retry delay on the same config, with
\* no client appended; the delay is followed only by the select, and so by
\* the next call, of the same config; a worker comes to the select only for
\* the first call of a config or from the delay after a failure.  So K
\* failures of a config take K delays and K + 1 calls.  The call that
\* succeeds appends one client and moves the worker on to the next config;
\* a config that has connected has exactly one client in the backendList,
\* and the worker is past a config only when its last Connect did not fail.
C7_RetriesUntilSuccess ==
    /\ [](\A w \in Workers : \A i \in Configs :
            /\ lastResult[w][i] = "ok" =>
                  /\ Cardinality({j \in 1..Len(backendList[w]) :
                                      backendList[w][j] = i}) = 1
                  /\ idx[w] > i
            /\ (idx[w] > i) = (lastResult[w][i] \in {"ok", "ErrNilConfig"})
            /\ lastResult[w][i] \in {"none", "err"} => ~InList(w, i)
            /\ slept[w][i] => lastResult[w][i] # "none"
            /\ (pc[w] = "sleep" /\ idx[w] = i) =>
                  (lastResult[w][i] = "err" /\ slept[w][i])
            /\ (pc[w] \in {"select", "connect"} /\ idx[w] = i) =>
                  /\ lastResult[w][i] \in {"none", "err"}
                  /\ slept[w][i] = (lastResult[w][i] = "err"))
    /\ [][\A w \in Workers : \E i \in Configs \cup {MaxBackends + 1} :
            /\ i = idx[w]
            /\ (pc'[w] = "connect" /\ pc[w] # "connect") =>
                  (pc[w] = "select" /\ idx'[w] = i)
            /\ (pc[w] = "connect" /\ pc'[w] # "connect") =>
                  \/ /\ lastResult'[w][i] = "err"
                     /\ pc'[w] = "sleep" /\ slept'[w][i]
                     /\ idx'[w] = i
                     /\ backendList'[w] = backendList[w]
                  \/ /\ lastResult'[w][i] = "ok"
                     /\ pc'[w] = "loop"
                     /\ idx'[w] = i + 1
                     /\ backendList'[w] = Append(backendList[w], i)
                     /\ slept'[w] = slept[w]
                  \/ lastResult'[w][i] = "ErrNilConfig"
            /\ (pc[w] = "sleep" /\ pc'[w] # "sleep") =>
                  /\ pc'[w] = "select" /\ idx'[w] = i
                  /\ lastResult'[w] = lastResult[w]
                  /\ backendList'[w] = backendList[w]
            /\ (pc'[w] = "select" /\ pc[w] # "select") =>
                  \/ pc[w] = "loop" /\ lastResult[w][i] = "none"
                  \/ pc[w] = "sleep" /\ lastResult[w][i] = "err"]_vars

\* A worker's first config failed, was retried after a delay and connected;
\* its second config connected at once.
C7_Witness ==
    \E w \in Workers :
        /\ lastResult[w][1] = "ok" /\ slept[w][1]
        /\ lastResult[w][2] = "ok" /\ ~slept[w][2]
        /\ backendList[w] = <<1, 2>>
        /\ ~ctxDone

\* C8: the not-configured sentinel ends the handling of its config: the
\* call that returns it takes no retry delay, appends no client and moves
\* the worker on to the next config; no Connect call of the config follows
\* it, and no client is in the backendList or closed for it.
C8_SentinelSkipsConfig ==
    /\ [](\A w \in Workers : \A i \in Configs :
            lastResult[w][i] = "ErrNilConfig" =>
                /\ ~InList(w, i)
                /\ closes[w][i] = 0
                /\ idx[w] > i)
    /\ [][\A w \in Workers : \A i \in Configs :
            /\ (lastResult'[w][i] = "ErrNilConfig"
                  /\ pc[w] = "connect" /\ idx[w] = i) =>
                  /\ pc'[w] = "loop"
                  /\ idx'[w] = i + 1
                  /\ slept'[w] = slept[w]
                  /\ backendList'[w] = backendList[w]
            /\ lastResult[w][i] = "ErrNilConfig" =>
                  /\ lastResult'[w][i] = "ErrNilConfig"
                  /\ slept'[w][i] = slept[w][i]
                  /\ ~(pc'[w] \in {"select", "connect", "sleep"}
                         /\ idx'[w] = i)]_vars

\* A worker skipped its first config without a delay and watches with the
\* client of its second.
C8_Witness ==
    \E w \in Workers :
        /\ lastResult[w][1] = "ErrNilConfig" /\ ~slept[w][1]
        /\ lastResult[w][2] = "ok"
        /\ backendList[w] = <<2>>
        /\ pc[w] = "watch"

\* C9: a worker is past a config only after a success or the sentinel; it
\* reaches NewResource only with every config resolved; it ends inside the
\* connect phase only under a cancelled context; while the last Connect
\* of a config failed and the context is not cancelled, the worker is still
\* retrying that config; and however often the config has failed, a worker
\* at the select with the context not cancelled calls Connect again, and a
\* call can fail again.
C9_RetryOnlyEndsBySuccessSentinelCancel ==
    \A w \in Workers :
        /\ \A i \in Configs :
              /\ idx[w] > i => lastResult[w][i] \in {"ok", "ErrNilConfig"}
              /\ (lastResult[w][i] = "err" /\ ~ctxDone) =>
                    (idx[w] = i /\ pc[w] \in {"sleep", "select", "connect"})
        /\ newRes[w] # "none" => idx[w] \notin GetBackends(w)
        /\ (pc[w] \in {"return", "done"} /\ newRes[w] = "none") => ctxDone
        /\ (pc[w] = "select" /\ ~ctxDone) =>
              ENABLED (WorkerStep(w) /\ pc'[w] = "connect")
        /\ pc[w] = "connect" =>
              ENABLED (WorkerStep(w) /\ pc'[w] = "sleep")

\* A config has failed, its worker has been through the delay and is in a
\* further Connect call for it, while the context is not cancelled.
C9_Witness ==
    \E w \in Workers :
        /\ lastResult[w][1] = "err"
        /\ slept[w][1]
        /\ pc[w] = "connect"
        /\ idx[w] = 1
        /\ ~ctxDone

\* Worker 1's only backend has failed every time and is being retried while
\* worker 2, whose backends connected at once, is watching.
C10_Scenario ==
    /\ NumResources = 2
    /\ Resource[1] = 1 /\ Resource[2] >= 1
    /\ lastResult[1][1] = "err" /\ slept[1][1]
    /\ pc[1] \in {"sleep", "select", "connect"}
    /\ pc[2] = "watch"
    /\ \A i \in GetBackends(2) : lastResult[2][i] = "ok" /\ ~slept[2][i]

\* C10: run's loop can always start the next worker, and a worker that is
\* not in Monitor can always take its next step,
\* whatever the other workers do; and from the state in which worker 2
\* watches while worker 1 retries, a fired stop leads to both workers over
\* and run returned.
C10_WorkersDoNotBlockOneAnother ==
    /\ [](/\ mainPc = "spawn" => ENABLED MainStep
          /\ \A w \in Workers :
                pc[w] \in {"start", "loop", "select", "connect", "sleep",
                          "build", "return"}
                    => ENABLED WorkerStep(w))
    /\ ((C10_Scenario /\ StopFired)
          ~> (mainPc = "returned" /\ pc[1] = "done" /\ pc[2] = "done"))

C10_Witness ==
    /\ C10_Scenario
    /\ pc[1] = "connect"
    /\ ~ctxDone

\* C11 as stated: cancel() is invoked at most once over any execution of run.
C11_CancelInvokedOnce == cancelCalls <= 1

\* C11, amended: the context is cancelled once and stays cancelled; the
\* stop branch is taken at most once and is what cancels the context when
\* it is taken; cancel() is invoked once by the stop branch and once more
\* by the deferred cancel() as run returns, so twice on the stop path and
\* once on the done path, the second invocation changing nothing.
C11_CancelEffectiveOnce ==
    /\ [](/\ cancelCalls = (IF branch = "stop" THEN 1 ELSE 0)
                            + (IF mainPc = "returned" THEN 1 ELSE 0)
          /\ ctxDone = (cancelCalls >= 1)
          /\ (branch = "stop") = (stop = "received")
          /\ mainPc = "stopWait" => branch = "stop")
    /\ [][/\ ctxDone => ctxDone'
          /\ branch = "stop" => branch' = "stop"
          /\ stop = "received" => stop' = "received"
          /\ (cancelCalls' # cancelCalls /\ ctxDone) =>
                (mainPc = "defer" /\ mainPc' = "returned")]_vars

\* run has returned through the stop branch: cancel() was invoked twice.
C11_Witness ==
    /\ mainPc = "returned" /\ branch = "stop"
    /\ cancelCalls = 2 /\ ctxDone
    /\ NumResources >= 1

----
\* template/util.go: appendPrefix and decrypt.  Strings that are taken apart
\* (paths) are sequences of one-character strings.

MaxKeys == 3

\* The prefixes and keys appendPrefix is called with.
Prefixes ==
    { <<>>, <<"/">>, <<"/", "a", "p", "p">>, <<"a", "/">>,
      <<"a", "/", ".", ".">>, <<".">> }
Keys ==
    { <<"a">>, <<"b">>, <<>>, <<"/", "a">>, <<".", ".">>,
      <<"a", "/", "/", "b">> }

\* The inputs of decrypt and the bodies a message can decompress to.
Datas == {"c1", "c2", ""}
Bodies == {"p1", "c1", ""}

\* The components of a path between its slashes.
RECURSIVE Split(_)
Split(p) ==
    IF p = <<>> THEN << <<>> >>
    ELSE LET rest == Split(Tail(p)) IN
         IF Head(p) = "/" THEN << <<>> >> \o rest
         ELSE << <<Head(p)>> \o Head(rest) >> \o Tail(rest)

\* path.Clean's pass over the components: empty and "." components are
\* dropped, ".." removes the component before it, is dropped at the root
\* and is kept at the start of a path that is not rooted.
RECURSIVE CleanFold(_, _, _)
CleanFold(comps, out, rooted) ==
    IF comps = <<>> THEN out
    ELSE LET c == Head(comps) IN
         CleanFold(Tail(comps),
                   IF c = <<>> \/ c = <<".">> THEN out
                   ELSE IF c = <<".", ".">>
                        THEN IF out # <<>> /\ out[Len(out)] # <<".", ".">>
                             THEN SubSeq(out, 1, Len(out) - 1)
                             ELSE IF rooted THEN out ELSE Append(out, c)
                        ELSE Append(out, c),
                   rooted)

RECURSIVE JoinSlash(_)
JoinSlash(comps) ==
    IF comps = <<>> THEN <<>>
    ELSE IF Len(comps) = 1 THEN Head(comps)
    ELSE Head(comps) \o <<"/">> \o JoinSlash(Tail(comps))

\* path.Clean
Clean(p) ==
    IF p = <<>> THEN <<".">>
    ELSE LET rooted == Head(p) = "/"
             out == CleanFold(Split(p), <<>>, rooted)
         IN  IF rooted THEN <<"/">> \o JoinSlash(out)
             ELSE IF out = <<>> THEN <<".">> ELSE JoinSlash(out)

\* path.Join(a, b): empty elements are ignored, the rest is joined with
\* slashes and cleaned; all empty gives the empty string.
PathJoin(a, b) ==
    IF a = <<>> /\ b = <<>> THEN <<>>
    ELSE IF a = <<>> THEN Clean(b)
    ELSE Clean(a \o <<"/">> \o b)

runIdle ==
    /\ RunInit
    /\ Resource = <<>>

\* A call of appendPrefix(prefix, keys) or of decrypt(data, entityList).
UtilInit ==
    /\ runIdle
    /\ s = <<>>
    /\ at = 0
    /\ stages = <<>>
    /\ body = ""
    /\ ret = [val |-> "", err |-> "nil"]
    /\ \/ /\ utilPc = "appendPrefix"
          /\ prefix \in Prefixes
          /\ keys \in UNION {[1..n -> Keys] : n \in 0..MaxKeys}
          /\ data = ""
       \/ /\ utilPc = "decrypt"
          /\ prefix = <<>>
          /\ keys = <<>>
          /\ data \in Datas

\* s := make([]string, len(keys))
AppendPrefixMake ==
    /\ utilPc = "appendPrefix"
    /\ s' = [i \in 1..Len(keys) |-> <<>>]
    /\ at' = 1
    /\ utilPc' = "range"
    /\ UNCHANGED <<prefix, keys, data, stages, body, ret>>
    /\ UNCHANGED runVars

\* Mutant of AppendPrefixAssign: the joined key is appended to s instead of
\* stored at its index.
AppendPrefixAppend ==
    /\ utilPc = "range"
    /\ at <= Len(keys)
    /\ s' = Append(s, PathJoin(prefix, keys[at]))
    /\ at' = at + 1
    /\ UNCHANGED <<utilPc, prefix, keys, data, stages, body, ret>>
    /\ UNCHANGED runVars

\* for i, k := range keys { s[i] = path.Join(prefix, k) }
AppendPrefixAssign ==
    /\ utilPc = "range"
    /\ at <= Len(keys)
    /\ s' = [s EXCEPT ![at] = PathJoin(prefix, keys[at])]
    /\ at' = at + 1
    /\ UNCHANGED <<utilPc, prefix, keys, data, stages, body, ret>>
    /\ UNCHANGED runVars

\* return s
AppendPrefixReturn ==
    /\ utilPc = "range"
    /\ at > Len(keys)
    /\ utilPc' = "appendPrefixDone"
    /\ UNCHANGED <<prefix, keys, s, at, data, stages, body, ret>>
    /\ UNCHANGED runVars

\* md, err := openpgp.ReadMessage(decoder, entityList, nil, nil), reading
\* through the base64 decoder; on an error: return data, err
DecryptReadMessage(ok) ==
    /\ utilPc = "decrypt"
    /\ stages' = Append(stages, IF ok THEN "ok" ELSE "err")
    /\ IF ok
       THEN /\ utilPc' = "gzipNewReader"
            /\ ret' = ret
       ELSE /\ utilPc' = "decryptDone"
            /\ ret' = [val |-> data, err |-> "ReadMessage"]
    /\ UNCHANGED <<prefix, keys, s, at, data, body>>
    /\ UNCHANGED runVars

\* gzReader, err := gzip.NewReader(md.UnverifiedBody); on an error:
\* return data, err
DecryptNewReader(ok) ==
    /\ utilPc = "gzipNewReader"
    /\ stages' = Append(stages, IF ok THEN "ok" ELSE "err")
    /\ IF ok
       THEN /\ utilPc' = "readAll"
            /\ ret' = ret
       ELSE /\ utilPc' = "decryptDone"
            /\ ret' = [val |-> data, err |-> "NewReader"]
    /\ UNCHANGED <<prefix, keys, s, at, data, body>>
    /\ UNCHANGED runVars

\* Mutant of DecryptReadAll: on a read error the bytes read so far are
\* returned with the error.
DecryptReadAllPartial(ok, bytes) ==
    /\ utilPc = "readAll"
    /\ stages' = Append(stages, IF ok THEN "ok" ELSE "err")
    /\ body' = bytes
    /\ utilPc' = "decryptDone"
    /\ ret' = [val |-> bytes, err |-> IF ok THEN "nil" ELSE "ReadAll"]
    /\ UNCHANGED <<prefix, keys, s, at, data>>
    /\ UNCHANGED runVars

\* bytes, err := ioutil.ReadAll(gzReader); on an error: return data, err;
\* otherwise return string(bytes), nil
DecryptReadAll(ok, bytes) ==
    /\ utilPc = "readAll"
    /\ stages' = Append(stages, IF ok THEN "ok" ELSE "err")
    /\ body' = bytes
    /\ utilPc' = "decryptDone"
    /\ ret' = IF ok THEN [val |-> bytes, err |-> "nil"]
              ELSE [val |-> data, err |-> "ReadAll"]
    /\ UNCHANGED <<prefix, keys, s, at, data>>
    /\ UNCHANGED runVars

UtilNext ==
    \/ AppendPrefixMake
    \/ AppendPrefixAssign
    \/ AppendPrefixReturn
    \/ \E ok \in BOOLEAN : DecryptReadMessage(ok)
    \/ \E ok \in BOOLEAN : DecryptNewReader(ok)
    \/ \E ok \in BOOLEAN : \E bytes \in Bodies : DecryptReadAll(ok, bytes)

UtilSpec == UtilInit /\ [][UtilNext]_vars

\* C12: appendPrefix returns a sequence as long as keys whose i-th element
\* is the path-join of prefix and keys[i], so equal keys give equal elements
\* at their own positions; the joined paths are clean (no empty component,
\* no trailing slash but the root's); prefix "/app" and keys a, b, a give
\* /app/a, /app/b, /app/a; keys and prefix are never changed.
C12_AppendPrefixElementwise ==
    /\ [](utilPc = "appendPrefixDone" =>
            /\ Len(s) = Len(keys)
            /\ \A i \in 1..Len(keys) :
                 /\ s[i] = PathJoin(prefix, keys[i])
                 /\ \A j \in 1..Len(keys) : keys[i] = keys[j] => s[i] = s[j]
                 /\ \A j \in 1..(Len(s[i]) - 1) :
                        ~(s[i][j] = "/" /\ s[i][j + 1] = "/")
                 /\ Len(s[i]) > 1 => s[i][Len(s[i])] # "/"
                 /\ (prefix # <<>> /\ Head(prefix) = "/") =>
                        (s[i] # <<>> /\ Head(s[i]) = "/")
            /\ (prefix = <<"/", "a", "p", "p">>
                  /\ keys = << <<"a">>, <<"b">>, <<"a">> >>) =>
                 s = << <<"/", "a", "p", "p", "/", "a">>,
                        <<"/", "a", "p", "p", "/", "b">>,
                        <<"/", "a", "p", "p", "/", "a">> >>)
    /\ [][keys' = keys /\ prefix' = prefix]_vars

\* The call of the example has returned.
C12_Witness ==
    /\ utilPc = "appendPrefixDone"
    /\ prefix = <<"/", "a", "p", "p">>
    /\ keys = << <<"a">>, <<"b">>, <<"a">> >>
    /\ s[3] = <<"/", "a", "p", "p", "/", "a">>

\* C13: decrypt has returned data itself and a non-nil error if a stage
\* failed, and a nil error only if all three stages succeeded, the result
\* then being the bytes read from the gzip reader.
C13_DecryptReturnsInputOnError ==
    utilPc = "decryptDone" =>
        /\ (\E j \in 1..Len(stages) : stages[j] = "err") =>
              (ret.val = data /\ ret.err # "nil")
        /\ ret.err = "nil" =>
              (stages = <<"ok", "ok", "ok">> /\ ret.val = body)
        /\ stages[Len(stages)] = "ok" => Len(stages) = 3

\* Reading the body failed after some bytes: the input comes back.
C13_Witness ==
    /\ utilPc = "decryptDone"
    /\ stages = <<"ok", "ok", "err">>
    /\ body = "p1" /\ data = "c2"
    /\ ret = [val |-> "c2", err |-> "ReadAll"]

----
\* Configuration i of worker w is resolved: its last Connect returned a
\* client (connected) or the sentinel (skipped).
Resolved(w, i) ==
    lastResult[w][i] \in {"ok", "ErrNilConfig"}

\* C14: a worker handles its configurations in the order of GetBackends:
\* only configurations of the resource are attempted, configuration i+1 is
\* reached only when configuration i is resolved (connected or skipped), a
\* resolved configuration is not attempted again, the position in the range
\* only moves forward by one, and NewResource is called only when every
\* configuration of the resource is resolved.
C14_ConfigsInOrderBeforeBuild ==
    /\ [](\A w \in Workers :
            /\ \A i \in Configs :
                 /\ lastResult[w][i] # "none" =>
                        (i \in GetBackends(w) /\ i <= idx[w])
                 /\ (pc[w] # "idle" /\ i < idx[w]) => Resolved(w, i)
            /\ pc[w] \in {"select", "connect", "sleep"} =>
                 idx[w] \in GetBackends(w)
            /\ newRes[w] # "none" =>
                 \A i \in GetBackends(w) : Resolved(w, i))
    /\ [][\A w \in Workers :
            /\ idx'[w] \in {idx[w], idx[w] + 1}
            /\ idx'[w] # idx[w] =>
                 \E i \in Configs : i = idx[w] /\ Resolved(w, i)'
            /\ \A i \in Configs :
                 Resolved(w, i) => lastResult'[w][i] = lastResult[w][i]]_vars

\* A worker with two configurations has called NewResource after a retry on
\* the first and a skip of the second.
C14_Witness ==
    \E w \in Spawned :
        /\ Resource[w] = 2
        /\ newRes[w] # "none"
        /\ lastResult[w][1] = "ok" /\ slept[w][1]
        /\ lastResult[w][2] = "ErrNilConfig"

----
\* The state of worker w in the worker state machine.
Phase(w) ==
    CASE pc[w] = "idle" -> "NotSpawned"
      [] pc[w] \in {"start", "loop", "select", "connect"} -> "Connecting"
      [] pc[w] = "sleep" -> "Retrying"
      [] pc[w] = "build" -> "Building"
      [] pc[w] = "watch" -> "Watching"
      [] pc[w] \in {"return", "done"} -> "Terminated"

\* C15: a worker changes state only along the edges of the state machine,
\* each under its condition: Connecting -> Retrying after a Connect failure
\* that is not the sentinel, Retrying -> Connecting, Connecting -> Building
\* with every configuration resolved, Building -> Watching with NewResource
\* succeeded, Watching -> Terminated with Monitor returned, Connecting or
\* Retrying -> Terminated with the context cancelled, Building -> Terminated
\* with NewResource failed.  Terminated is never left, and a worker is in
\* Watching only with a successful build.
C15_OnlyStateMachineTransitions ==
    /\ [][\A w \in Workers :
            Phase(w)' # Phase(w) =>
              \/ /\ Phase(w) = "NotSpawned"
                 /\ Phase(w)' = "Connecting"
              \/ /\ Phase(w) = "Connecting"
                 /\ Phase(w)' = "Retrying"
                 /\ pc[w] = "connect"
                 /\ lastResult'[w][idx[w]] = "err"
              \/ /\ Phase(w) = "Retrying"
                 /\ Phase(w)' = "Connecting"
              \/ /\ Phase(w) = "Connecting"
                 /\ Phase(w)' = "Building"
                 /\ \A i \in GetBackends(w) : Resolved(w, i)
              \/ /\ Phase(w) = "Building"
                 /\ Phase(w)' = "Watching"
                 /\ newRes'[w] = "ok"
              \/ /\ Phase(w) = "Watching"
                 /\ Phase(w)' = "Terminated"
                 /\ monitor'[w] = "returned"
              \/ /\ Phase(w) \in {"Connecting", "Retrying"}
                 /\ Phase(w)' = "Terminated"
                 /\ ctxDone
              \/ /\ Phase(w) = "Building"
                 /\ Phase(w)' = "Terminated"
                 /\ newRes'[w] = "err"]_vars
    /\ [](\A w \in Workers :
            /\ Phase(w) = "Watching" => newRes[w] = "ok"
            /\ newRes[w] = "err" => Phase(w) = "Terminated"
            /\ monitor[w] # "none" => newRes[w] = "ok")

\* One worker has gone through Retrying, Building and Watching to
\* Terminated, another has terminated on a failed build.
C15_Witness ==
    /\ NumResources = 2
    /\ Phase(1) = "Terminated" /\ slept[1][1] /\ monitor[1] = "returned"
    /\ Phase(2) = "Terminated" /\ newRes[2] = "err" /\ monitor[2] = "none"

----
\* Worker w has counted down the join: its deferred wait.Done() has run.
Joined(w) ==
    /\ pc[w] \in {"return", "done"}
    /\ \A j \in 1..Len(deferred[w]) : deferred[w][j] # "wait.Done"

\* Some client of worker w has been closed.
Releasing(w) == \E i \in Configs : closes[w][i] > 0

\* C16: the release lies between last use and join.  While NewResource or
\* Monitor of a worker runs none of its clients is closed; wait.Done() is
\* registered below backendList.Close() on the defer stack, so it runs
\* last; the step that counts down the join is taken with every connected
\* client closed once, and a joined worker has every client closed.
C16_ReleaseBetweenUseAndJoin ==
    /\ [](\A w \in Workers :
            /\ (newRes[w] = "running" \/ monitor[w] = "running") =>
                  (~Releasing(w) /\ pc[w] \in {"build", "watch"})
            /\ pc[w] \in {"build", "watch"} => ~Releasing(w)
            /\ deferred[w] \in { <<>>, <<"wait.Done">>,
                                 <<"wait.Done", "backendList.Close">> }
            /\ Joined(w) => (ClosedOnce(w) /\ deferred[w] = <<>>)
            /\ Releasing(w) => pc[w] \in {"return", "done"})
    /\ [][\A w \in Workers :
            (~Joined(w) /\ Joined(w)') =>
                (ClosedOnce(w) /\ wait' = wait - 1 /\ closes' = closes)]_vars

\* A worker that watched has closed its client and has not yet counted
\* down the join.
C16_Witness ==
    \E w \in Spawned :
        /\ pc[w] = "return"
        /\ monitor[w] = "returned"
        /\ deferred[w] = <<"wait.Done">>
        /\ closes[w][1] = 1
        /\ wait >= 1

----
\* Worker w can unwind now: it has a step that takes it to its return.
CanUnwind(w) == ENABLED (WorkerStep(w) /\ pc'[w] = "return")

\* C17: the retry delay is cancellable: a worker that is in the delay with
\* the context cancelled can unwind from there, without the delay elapsing.
C17_RetryDelayCancellable ==
    \A w \in Workers : (ctxDone /\ pc[w] = "sleep") => CanUnwind(w)

\* The context is cancelled while a worker is in time.Sleep.
C17_Witness ==
    \E w \in Spawned :
        /\ ctxDone
        /\ pc[w] = "sleep"
        /\ ~CanUnwind(w)
        /\ ENABLED SleepElapsed(w)

----
\* Both signals are ready as the supervisor selects.
BothReady == mainPc = "select" /\ stop = "fired" /\ done

\* C18 as stated: with both signals ready the supervisor takes the stop
\* branch, not the done branch.
C18_StopTakesPriority ==
    [][(BothReady /\ mainPc' # mainPc) => branch' = "stop"]_vars

\* C18, amended: the select has no priority.  With both signals ready
\* either branch can be taken; a branch is taken only with its signal
\* ready, the stop branch cancelling and going on to the join, the done
\* branch returning with every worker exited; whichever branch is taken,
\* run has returned only with every worker exited and the context cancelled.
C18_SelectWithoutPriority ==
    /\ [](/\ BothReady => (ENABLED StopBranch /\ ENABLED DoneBranch)
          /\ mainPc \in {"spawn", "select"} <=> branch = "none"
          /\ mainPc = "returned" => (AllExited /\ ctxDone))
    /\ [][/\ (branch = "none" /\ branch' = "stop") =>
                (stop = "fired" /\ ctxDone' /\ mainPc' = "stopWait")
          /\ (branch = "none" /\ branch' = "done") =>
                (done /\ AllExited /\ mainPc' = "defer")
          /\ branch # "none" => branch' = branch]_vars

\* Both signals are ready at the select and the done branch can be taken.
C18_Witness ==
    /\ BothReady
    /\ ENABLED DoneBranch
    /\ NumResources >= 1

----
\* The spawned workers that have not yet counted down the join.
Pending == {w \in Spawned : ~Joined(w)}

\* C19: one worker per resource, and a consistent join.  The workers started
\* are those of the resources ranged over so far, all of them once the range
\* is over; the join counter is the number of spawned workers that have not
\* exited, never negative; done is raised only by the watcher, with the
\* counter at zero and every resource's worker exited, and at most once,
\* also when the stop branch waits on the counter as well.
C19_JoinConsistent ==
    /\ [](/\ spawned \in 0..NumResources
          /\ \A w \in Workers : pc[w] # "idle" <=> w \in Spawned
          /\ mainPc # "spawn" => spawned = NumResources
          /\ wait = Cardinality(Pending)
          /\ wait >= 0
          /\ doneCloses = (IF done THEN 1 ELSE 0)
          /\ done <=> watcherPc = "exit"
          /\ watcherPc \in {"close", "exit"} =>
                (wait = 0 /\ spawned = NumResources /\ AllExited))
    /\ [][/\ spawned' \in {spawned, spawned + 1}
          /\ spawned' # spawned => wait' = wait + 1
          /\ wait' \in {wait - 1, wait, wait + 1}
          /\ done' # done => (watcherPc = "close" /\ wait = 0)
          /\ (mainPc = "stopWait" /\ mainPc' # mainPc) =>
                (wait = 0 /\ done' = done /\ doneCloses' = doneCloses)]_vars

\* Two workers were joined by the stop branch and by the watcher, which has
\* raised done once.
C19_Witness ==
    /\ NumResources = 2
    /\ branch = "stop"
    /\ mainPc = "returned"
    /\ done /\ doneCloses = 1
    /\ wait = 0

----
\* C20: the cancellation is checked before every Connect and nowhere else
\* in the connect phase.  A Connect call begins only from the select, with
\* the context not cancelled; the select leaves to the return exactly when
\* the context is cancelled, and no other point of the connect phase leaves
\* to the return.  So, with the context cancelled, no worker begins a
\* Connect call for any configuration: the only Connect result that can
\* still arrive is that of the one call the worker was already in, and a
\* worker that is not in a call gets no result for its configuration or any
\* later one.
C20_CancelCheckedBeforeEachConnect ==
    [][\A w \in Workers :
        /\ (pc'[w] = "connect" /\ pc[w] # "connect") =>
              (pc[w] = "select" /\ ~ctxDone)
        /\ (pc[w] = "select" /\ pc'[w] # "select") =>
              pc'[w] = (IF ctxDone THEN "return" ELSE "connect")
        /\ pc[w] \in {"start", "loop", "connect", "sleep"} =>
              pc'[w] # "return"
        /\ ctxDone =>
              \A i \in Configs :
                 /\ pc'[w] = "connect" =>
                       (pc[w] = "connect" /\ idx'[w] = idx[w])
                 /\ lastResult'[w][i] # lastResult[w][i] =>
                       /\ pc[w] = "connect" /\ idx[w] = i
                       /\ pc'[w] # "connect"
                 /\ pc[w] # "connect" =>
                       lastResult'[w][i] = lastResult[w][i]
                 /\ i > idx[w] => lastResult'[w][i] = "none"]_vars

\* A worker whose first Connect succeeded has reached its second
\* configuration with the context cancelled and has returned without a
\* Connect call for it.
C20_Witness ==
    \E w \in Spawned :
        /\ ctxDone
        /\ Resource[w] = 2
        /\ pc[w] = "return"
        /\ newRes[w] = "none"
        /\ idx[w] = 2
        /\ lastResult[w][1] = "ok"
        /\ lastResult[w][2] = "none"

====
